---- MODULE Spec2Model ----
(***************************************************************************)
(* Model of the ATM driver (src/src/driver.ts): the login / withdrawal     *)
(* input handlers, the timed terminal message, and the two-pass note       *)
(* allocation over the depleting note inventory.                           *)
(*                                                                         *)
(* Strings of digits (pin, toWithdraw) are sequences of digits 0..9.       *)
(* Texts written to the terminal are records [kind, a, b, buf]: kind is    *)
(* the literal part of the text, a and b the numbers and buf the digit     *)
(* string concatenated into it.                                            *)
(***************************************************************************)
EXTENDS Integers, Sequences, FiniteSets, TLC

VARIABLES messageTimerOn, pin, toWithdraw, balance, loginScreen, userAmount,
          initialBalance, availableNotes, userNotes, terminalText, statsPanel,
          timeouts, request, lastMessage, lastAllocation, lastCasted

vars == <<messageTimerOn, pin, toWithdraw, balance, loginScreen, userAmount,
          initialBalance, availableNotes, userNotes, terminalText, statsPanel,
          timeouts, request, lastMessage, lastAllocation, lastCasted>>

(***************************************************************************)
(* Program constants.                                                      *)
(***************************************************************************)
overdraftLimit == 100

PinCap == 4

WithdrawCap == 5

CommonDenominator == 5

StatusOK == 200

StartingNotes == [five |-> 4, ten |-> 15, twenty |-> 7]

NoNotes == [five |-> 0, ten |-> 0, twenty |-> 0]

denominations == <<20, 10, 5>>

(***************************************************************************)
(* Inputs of the environment: the keys the user presses, the pin the       *)
(* verification service accepts and the balances it may return.            *)
(***************************************************************************)
Digits == {0, 1, 5}

DigitInputs == {<<d>> : d \in Digits}

CorrectPin == <<1, 1, 1, 1>>

LoginBalances == {-150, 50, 220}

RejectedStatuses == {403}

(***************************************************************************)
(* Texts.                                                                  *)
(***************************************************************************)
Text(kind, a, b, buf) == [kind |-> kind, a |-> a, b |-> b, buf |-> buf]

Literal(kind) == Text(kind, 0, 0, <<>>)

insertionError == Literal("No more can be inserted!!")

deletionError == Literal("No more can be deleted!!")

PinCorrect == Literal("PIN correct!")

PinIncorrect == Literal("PIN incorrect!")

NotEnoughNotes == Literal("Not enougth notes present!")

CantDispense == Literal("Can't dispense that denomination!!")

NotEnoughInAccount == Literal("Not enough in Account!")

Withdrawn(amount) == Text("Withdrawn: ", amount, 0, <<>>)

NoMessage == Literal("")

NoAllocation == [called |-> FALSE, amount |-> 0]

NaN == [nan |-> TRUE, value |-> 0]

NoAmount == [parsed |-> FALSE, nan |-> FALSE, value |-> 0]

NoRequest == [sent |-> FALSE, status |-> 0, currentBalance |-> 0]

(***************************************************************************)
(* parseInt on a string of decimal digits: NaN for the empty string,       *)
(* otherwise the decimal value (leading zeros are skipped by the value).   *)
(***************************************************************************)
RECURSIVE DecimalValue(_)
DecimalValue(s) ==
    IF s = <<>> THEN 0
    ELSE 10 * DecimalValue(SubSeq(s, 1, Len(s) - 1)) + s[Len(s)]

parseInt(s) ==
    IF s = <<>> THEN NaN
    ELSE [nan |-> FALSE, value |-> DecimalValue(s)]

(***************************************************************************)
(* Closures over the globals, as functions of the values they read.        *)
(***************************************************************************)
trueBalance(bal) == bal + overdraftLimit

pinToAstrisk(p) == Len(p)

pinMessage(p) == Text("Pin: ", pinToAstrisk(p), 0, <<>>)

\* Mutant of withdrawalMessage: the overdraft is counted from the balance
\* left, so every withdrawal below zero is counted twice.
withdrawalMessage_doubleCount(bal, amt, init, buf) ==
    IF bal < 0
    THEN Text("Overdraft: | Balance: | Amount to withdraw: ", amt - bal, trueBalance(bal), buf)
    ELSE Text("Balance: | Amount to withdraw: ", 0, trueBalance(bal), buf)

withdrawalMessage(bal, amt, init, buf) ==
    IF bal < 0
    THEN Text("Overdraft: | Balance: | Amount to withdraw: ", amt - init, trueBalance(bal), buf)
    ELSE Text("Balance: | Amount to withdraw: ", 0, trueBalance(bal), buf)

calculateTotalRemainingCash(notes) ==
    (notes.five * 5) + (notes.ten * 10) + (notes.twenty * 20)

isATMEmpty(notes) == calculateTotalRemainingCash(notes) = 0

\* Mutant of haveEnoughCash: an empty ATM is not looked at.
haveEnoughCash_unlessEmpty(to_withdraw, notes) ==
    isATMEmpty(notes) \/ to_withdraw <= calculateTotalRemainingCash(notes)

haveEnoughCash(to_withdraw, notes) ==
    to_withdraw <= calculateTotalRemainingCash(notes)

(***************************************************************************)
(* getDenominationsNeeded.  The note lists are sequences indexed like the  *)
(* source's arrays, <<twenty, ten, five>>.  A loop state is                *)
(* [amount, notesAvailable, notesNeeded].                                  *)
(***************************************************************************)
TakeNote(st, i) ==
    [amount |-> st.amount - denominations[i],
     notesAvailable |-> [st.notesAvailable EXCEPT ![i] = @ - 1],
     notesNeeded |-> [st.notesNeeded EXCEPT ![i] = @ + 1]]

\* Mutant of BelowNoteLimit: the limit is rounded down to an integer.
BelowNoteLimit_rounded(needed, amount, totalNotes) ==
    IF totalNotes = 0 THEN amount > 0
    ELSE needed < amount \div totalNotes

\* notesNeeded[i] < amount / totalNotes, a division of reals: x / 0 is
\* Infinity for x > 0 and NaN for x = 0.
BelowNoteLimit(needed, amount, totalNotes) ==
    IF totalNotes = 0 THEN amount > 0
    ELSE needed * totalNotes < amount

\* Mutant of LimitedLoop: the first pass does not look at the amount left.
RECURSIVE LimitedLoop_amountIgnored(_, _, _, _)
LimitedLoop_amountIgnored(st, i, amount, totalNotes) ==
    IF /\ st.notesAvailable[i] > 0
       /\ BelowNoteLimit(st.notesNeeded[i], amount, totalNotes)
    THEN LimitedLoop_amountIgnored(TakeNote(st, i), i, amount, totalNotes)
    ELSE st

RECURSIVE LimitedLoop(_, _, _, _)
LimitedLoop(st, i, amount, totalNotes) ==
    IF /\ st.amount >= denominations[i]
       /\ st.notesAvailable[i] > 0
       /\ BelowNoteLimit(st.notesNeeded[i], amount, totalNotes)
    THEN LimitedLoop(TakeNote(st, i), i, amount, totalNotes)
    ELSE st

\* Mutant of RemainderLoop: the second pass does not look at the stock.
RECURSIVE RemainderLoop_stockIgnored(_, _)
RemainderLoop_stockIgnored(st, i) ==
    IF st.amount >= denominations[i]
    THEN RemainderLoop_stockIgnored(TakeNote(st, i), i)
    ELSE st

RECURSIVE RemainderLoop(_, _)
RemainderLoop(st, i) ==
    IF st.amount >= denominations[i] /\ st.notesAvailable[i] > 0
    THEN RemainderLoop(TakeNote(st, i), i)
    ELSE st

RECURSIVE LimitedPass(_, _, _, _)
LimitedPass(st, i, amount, totalNotes) ==
    IF i > Len(denominations) THEN st
    ELSE LimitedPass(LimitedLoop(st, i, amount, totalNotes), i + 1, amount, totalNotes)

RECURSIVE RemainderPass(_, _)
RemainderPass(st, i) ==
    IF i > Len(denominations) THEN st
    ELSE RemainderPass(RemainderLoop(st, i), i + 1)

\* Result: the notes handed out, the new availableNotes, and the part of
\* the amount that was not made up (the local `amount` at the return).
getDenominationsNeeded(amount, notes) ==
    LET notesAvailable == <<notes.twenty, notes.ten, notes.five>>
        totalNotes == notes.twenty + notes.ten + notes.five
        start == [amount |-> amount, notesAvailable |-> notesAvailable,
                  notesNeeded |-> <<0, 0, 0>>]
        first == LimitedPass(start, 1, amount, totalNotes)
        last == IF first.amount # 0 THEN RemainderPass(first, 1) ELSE first
    IN  [batchOfNotes |-> [twenty |-> last.notesNeeded[1], ten |-> last.notesNeeded[2],
                           five |-> last.notesNeeded[3]],
         availableNotes |-> [twenty |-> last.notesAvailable[1], ten |-> last.notesAvailable[2],
                             five |-> last.notesAvailable[3]],
         remaining |-> last.amount]

\* Mutant of updateUserStats: a ten-pound note is valued as five pounds.
updateUserStats_tenAsFive(notesWithdrawn, bal, amt, notes) ==
    LET totalWithdrawn == (notesWithdrawn.five * 5) + (notesWithdrawn.ten * 5)
                              + (notesWithdrawn.twenty * 20)
    IN  [balance |-> bal - totalWithdrawn,
         userAmount |-> amt + totalWithdrawn,
         userNotes |-> [five |-> notes.five + notesWithdrawn.five,
                        ten |-> notes.ten + notesWithdrawn.ten,
                        twenty |-> notes.twenty + notesWithdrawn.twenty]]

\* Mutant of updateUserStats: the five-pound notes are not added to userNotes.
updateUserStats_fivesNotCounted(notesWithdrawn, bal, amt, notes) ==
    LET totalWithdrawn == (notesWithdrawn.five * 5) + (notesWithdrawn.ten * 10)
                              + (notesWithdrawn.twenty * 20)
    IN  [balance |-> bal - totalWithdrawn,
         userAmount |-> amt + totalWithdrawn,
         userNotes |-> [five |-> notes.five,
                        ten |-> notes.ten + notesWithdrawn.ten,
                        twenty |-> notes.twenty + notesWithdrawn.twenty]]

\* updateUserStats: the new balance, userAmount and userNotes.
updateUserStats(notesWithdrawn, bal, amt, notes) ==
    LET totalWithdrawn == (notesWithdrawn.five * 5) + (notesWithdrawn.ten * 10)
                              + (notesWithdrawn.twenty * 20)
    IN  [balance |-> bal - totalWithdrawn,
         userAmount |-> amt + totalWithdrawn,
         userNotes |-> [five |-> notes.five + notesWithdrawn.five,
                        ten |-> notes.ten + notesWithdrawn.ten,
                        twenty |-> notes.twenty + notesWithdrawn.twenty]]

\* updateStatsPanel: the numbers written into the four panel elements.
updateStatsPanel(notes, amt) ==
    [written |-> TRUE, twenty |-> notes.twenty, ten |-> notes.ten,
     five |-> notes.five, total |-> amt]

\* Mutant of withdrawGuard: the amount is not required to be positive.
withdrawGuard_zeroAllowed(amount_to_withdraw, bal) ==
    amount_to_withdraw <= bal + overdraftLimit

\* withdraw: guarded call of the allocation, then the updates.
withdrawGuard(amount_to_withdraw, bal) ==
    amount_to_withdraw > 0 /\ amount_to_withdraw <= bal + overdraftLimit

withdraw(amount_to_withdraw) ==
    IF withdrawGuard(amount_to_withdraw, balance)
    THEN LET got == getDenominationsNeeded(amount_to_withdraw, availableNotes)
             upd == updateUserStats(got.batchOfNotes, balance, userAmount, userNotes)
         IN  /\ availableNotes' = got.availableNotes
             /\ balance' = upd.balance
             /\ userAmount' = upd.userAmount
             /\ userNotes' = upd.userNotes
             /\ statsPanel' = updateStatsPanel(upd.userNotes, upd.userAmount)
             /\ lastAllocation' = [called |-> TRUE, amount |-> amount_to_withdraw]
    ELSE /\ UNCHANGED <<availableNotes, balance, userAmount, userNotes, statsPanel>>
         /\ lastAllocation' = NoAllocation

(***************************************************************************)
(* displayTimedMessage(message, default_message): shows the message and    *)
(* schedules the callback that restores default_message, unless a message  *)
(* is already being shown.  lastMessage records the message it was asked   *)
(* to show.                                                                *)
(***************************************************************************)
\* Mutant of displayTimedMessage: a message is shown over the one on display.
displayTimedMessage_unguarded(message, default_message) ==
    /\ lastMessage' = message
    /\ messageTimerOn' = TRUE
    /\ terminalText' = message
    /\ timeouts' = Append(timeouts, default_message)

\* Mutant of displayTimedMessage: the flag is not set when a message is shown.
displayTimedMessage_flagNotSet(message, default_message) ==
    /\ lastMessage' = message
    /\ IF ~messageTimerOn
       THEN /\ terminalText' = message
            /\ timeouts' = Append(timeouts, default_message)
            /\ UNCHANGED messageTimerOn
       ELSE UNCHANGED <<messageTimerOn, terminalText, timeouts>>

displayTimedMessage(message, default_message) ==
    /\ lastMessage' = message
    /\ IF ~messageTimerOn
       THEN /\ messageTimerOn' = TRUE
            /\ terminalText' = message
            /\ timeouts' = Append(timeouts, default_message)
       ELSE UNCHANGED <<messageTimerOn, terminalText, timeouts>>

\* Mutant of timeoutCallback: the text is put back but the flag stays set.
timeoutCallback_flagKept ==
    /\ timeouts # <<>>
    /\ terminalText' = Head(timeouts)
    /\ timeouts' = Tail(timeouts)
    /\ lastMessage' = NoMessage
    /\ lastAllocation' = NoAllocation
    /\ lastCasted' = NoAmount
    /\ UNCHANGED <<messageTimerOn, pin, toWithdraw, balance, loginScreen, userAmount,
                   initialBalance, availableNotes, userNotes, statsPanel, request>>

\* The setTimeout callback.
timeoutCallback ==
    /\ timeouts # <<>>
    /\ terminalText' = Head(timeouts)
    /\ messageTimerOn' = FALSE
    /\ timeouts' = Tail(timeouts)
    /\ lastMessage' = NoMessage
    /\ lastAllocation' = NoAllocation
    /\ lastCasted' = NoAmount
    /\ UNCHANGED <<pin, toWithdraw, balance, loginScreen, userAmount, initialBalance,
                   availableNotes, userNotes, statsPanel, request>>

(***************************************************************************)
(* Digit and delete keys.                                                  *)
(***************************************************************************)
\* Mutant of pinInserter: the cap is compared with <=.
pinInserter_offByOne(digit) ==
    /\ IF Len(digit) = 1 /\ Len(pin) <= PinCap /\ ~messageTimerOn
       THEN /\ pin' = pin \o digit
            /\ terminalText' = pinMessage(pin')
            /\ lastMessage' = NoMessage
            /\ UNCHANGED <<messageTimerOn, timeouts>>
       ELSE /\ displayTimedMessage(insertionError, pinMessage(pin))
            /\ UNCHANGED pin
    /\ UNCHANGED toWithdraw

pinInserter(digit) ==
    /\ IF Len(digit) = 1 /\ Len(pin) < PinCap /\ ~messageTimerOn
       THEN /\ pin' = pin \o digit
            /\ terminalText' = pinMessage(pin')
            /\ lastMessage' = NoMessage
            /\ UNCHANGED <<messageTimerOn, timeouts>>
       ELSE /\ displayTimedMessage(insertionError, pinMessage(pin))
            /\ UNCHANGED pin
    /\ UNCHANGED toWithdraw

\* Mutant of withdrawalInserter: the message flag is not tested.
withdrawalInserter_flagIgnored(digit) ==
    /\ IF Len(digit) = 1 /\ Len(toWithdraw) < WithdrawCap
       THEN /\ toWithdraw' = toWithdraw \o digit
            /\ terminalText' = withdrawalMessage(balance, userAmount, initialBalance, toWithdraw')
            /\ lastMessage' = NoMessage
            /\ UNCHANGED <<messageTimerOn, timeouts>>
       ELSE /\ displayTimedMessage(insertionError,
                    withdrawalMessage(balance, userAmount, initialBalance, toWithdraw))
            /\ UNCHANGED toWithdraw
    /\ UNCHANGED pin

withdrawalInserter(digit) ==
    /\ IF Len(digit) = 1 /\ Len(toWithdraw) < WithdrawCap /\ ~messageTimerOn
       THEN /\ toWithdraw' = toWithdraw \o digit
            /\ terminalText' = withdrawalMessage(balance, userAmount, initialBalance, toWithdraw')
            /\ lastMessage' = NoMessage
            /\ UNCHANGED <<messageTimerOn, timeouts>>
       ELSE /\ displayTimedMessage(insertionError,
                    withdrawalMessage(balance, userAmount, initialBalance, toWithdraw))
            /\ UNCHANGED toWithdraw
    /\ UNCHANGED pin

inputManager(digit) ==
    /\ IF loginScreen THEN pinInserter(digit) ELSE withdrawalInserter(digit)
    /\ lastAllocation' = NoAllocation
    /\ lastCasted' = NoAmount
    /\ UNCHANGED <<balance, loginScreen, userAmount, initialBalance, availableNotes,
                   userNotes, statsPanel, request>>

\* Mutant of digitRemover: the first character is cut off instead of the last.
digitRemover_firstCharacter ==
    /\ IF loginScreen
       THEN /\ IF Len(pin) > 0 /\ ~messageTimerOn
               THEN /\ pin' = SubSeq(pin, 2, Len(pin))
                    /\ terminalText' = pinMessage(pin')
                    /\ lastMessage' = NoMessage
                    /\ UNCHANGED <<messageTimerOn, timeouts>>
               ELSE /\ displayTimedMessage(deletionError, pinMessage(pin))
                    /\ UNCHANGED pin
            /\ UNCHANGED toWithdraw
       ELSE /\ IF Len(toWithdraw) > 0 /\ ~messageTimerOn
               THEN /\ toWithdraw' = SubSeq(toWithdraw, 2, Len(toWithdraw))
                    /\ terminalText' = withdrawalMessage(balance, userAmount, initialBalance,
                                                         toWithdraw')
                    /\ lastMessage' = NoMessage
                    /\ UNCHANGED <<messageTimerOn, timeouts>>
               ELSE /\ displayTimedMessage(deletionError,
                            withdrawalMessage(balance, userAmount, initialBalance, toWithdraw))
                    /\ UNCHANGED toWithdraw
            /\ UNCHANGED pin
    /\ lastAllocation' = NoAllocation
    /\ lastCasted' = NoAmount
    /\ UNCHANGED <<balance, loginScreen, userAmount, initialBalance, availableNotes,
                   userNotes, statsPanel, request>>

digitRemover ==
    /\ IF loginScreen
       THEN /\ IF Len(pin) > 0 /\ ~messageTimerOn
               THEN /\ pin' = SubSeq(pin, 1, Len(pin) - 1)
                    /\ terminalText' = pinMessage(pin')
                    /\ lastMessage' = NoMessage
                    /\ UNCHANGED <<messageTimerOn, timeouts>>
               ELSE /\ displayTimedMessage(deletionError, pinMessage(pin))
                    /\ UNCHANGED pin
            /\ UNCHANGED toWithdraw
       ELSE /\ IF Len(toWithdraw) > 0 /\ ~messageTimerOn
               THEN /\ toWithdraw' = SubSeq(toWithdraw, 1, Len(toWithdraw) - 1)
                    /\ terminalText' = withdrawalMessage(balance, userAmount, initialBalance,
                                                         toWithdraw')
                    /\ lastMessage' = NoMessage
                    /\ UNCHANGED <<messageTimerOn, timeouts>>
               ELSE /\ displayTimedMessage(deletionError,
                            withdrawalMessage(balance, userAmount, initialBalance, toWithdraw))
                    /\ UNCHANGED toWithdraw
            /\ UNCHANGED pin
    /\ lastAllocation' = NoAllocation
    /\ lastCasted' = NoAmount
    /\ UNCHANGED <<balance, loginScreen, userAmount, initialBalance, availableNotes,
                   userNotes, statsPanel, request>>

(***************************************************************************)
(* The verification service: the responses it can give to a pin.           *)
(***************************************************************************)
Responses(p) ==
    IF p = CorrectPin
    THEN {[sent |-> TRUE, status |-> StatusOK, currentBalance |-> b] : b \in LoginBalances}
    ELSE {[sent |-> TRUE, status |-> st, currentBalance |-> 0] : st \in RejectedStatuses}

\* Mutant of loginValid: the status of the response is not tested.
loginValid_anyStatus(response) == response.sent

\* login: the value it returns for a response (the onreadystatechange test).
loginValid(response) == response.status = StatusOK

login(response) ==
    /\ request' = response
    /\ IF loginValid(response)
       THEN /\ balance' = response.currentBalance
            /\ initialBalance' = response.currentBalance
       ELSE UNCHANGED <<balance, initialBalance>>

(***************************************************************************)
(* The confirm key.                                                        *)
(***************************************************************************)
\* Mutant of attemptLogin: a rejected pin is left in the buffer.
attemptLogin_pinKept(response) ==
    /\ login(response)
    /\ IF loginValid(response)
       THEN /\ loginScreen' = FALSE
            /\ UNCHANGED pin
            /\ displayTimedMessage(PinCorrect,
                   withdrawalMessage(balance', userAmount, initialBalance', toWithdraw))
       ELSE /\ UNCHANGED <<pin, loginScreen>>
            /\ displayTimedMessage(PinIncorrect, pinMessage(pin))
    /\ lastAllocation' = NoAllocation
    /\ lastCasted' = NoAmount
    /\ UNCHANGED <<toWithdraw, userAmount, availableNotes, userNotes, statsPanel>>

attemptLogin(response) ==
    /\ login(response)
    /\ IF loginValid(response)
       THEN /\ loginScreen' = FALSE
            /\ UNCHANGED pin
            /\ displayTimedMessage(PinCorrect,
                   withdrawalMessage(balance', userAmount, initialBalance', toWithdraw))
       ELSE /\ pin' = <<>>
            /\ UNCHANGED loginScreen
            /\ displayTimedMessage(PinIncorrect, pinMessage(pin'))
    /\ lastAllocation' = NoAllocation
    /\ lastCasted' = NoAmount
    /\ UNCHANGED <<toWithdraw, userAmount, availableNotes, userNotes, statsPanel>>

\* Mutants of withinTrueBalance: the overdraft is left out of the comparison;
\* the comparison is dropped.
withinTrueBalance_noOverdraft(casted, bal) == ~casted.nan /\ casted.value <= bal

withinTrueBalance_always(casted, bal) == ~casted.nan

\* castedWithdrawalAmount <= trueBalance(): false when the amount is NaN.
withinTrueBalance(casted, bal) == ~casted.nan /\ casted.value <= trueBalance(bal)

\* Mutant of rejectionMessage: divisibility is looked at before the cash.
rejectionMessage_divisibilityFirst(amount, enoughCashPresent) ==
    IF amount % CommonDenominator # 0 THEN CantDispense ELSE NotEnoughNotes

\* The else-if chain after the failed test `amount % 5 == 0 && enoughCashPresent`.
rejectionMessage(amount, enoughCashPresent) ==
    IF ~enoughCashPresent THEN NotEnoughNotes ELSE CantDispense

attemptWithdrawal ==
    LET castedWithdrawalAmount == parseInt(toWithdraw)
        amount == castedWithdrawalAmount.value
        enoughCashPresent == haveEnoughCash(amount, availableNotes)
    IN  /\ IF withinTrueBalance(castedWithdrawalAmount, balance)
           THEN IF amount % CommonDenominator = 0 /\ enoughCashPresent
                THEN /\ withdraw(amount)
                     /\ toWithdraw' = <<>>
                     /\ displayTimedMessage(Withdrawn(amount),
                            withdrawalMessage(balance', userAmount', initialBalance, toWithdraw'))
                ELSE /\ UNCHANGED <<availableNotes, balance, userAmount, userNotes, statsPanel>>
                     /\ lastAllocation' = NoAllocation
                     /\ toWithdraw' = <<>>
                     /\ displayTimedMessage(rejectionMessage(amount, enoughCashPresent),
                            withdrawalMessage(balance, userAmount, initialBalance, toWithdraw'))
           ELSE /\ UNCHANGED <<availableNotes, balance, userAmount, userNotes, statsPanel>>
                /\ lastAllocation' = NoAllocation
                /\ toWithdraw' = <<>>
                /\ displayTimedMessage(NotEnoughInAccount,
                       withdrawalMessage(balance, userAmount, initialBalance, toWithdraw'))
        /\ lastCasted' = [parsed |-> TRUE, nan |-> castedWithdrawalAmount.nan,
                          value |-> castedWithdrawalAmount.value]
        /\ UNCHANGED <<pin, loginScreen, initialBalance, request>>

attemptUserInput ==
    /\ IF loginScreen
       THEN \E response \in Responses(pin) : attemptLogin(response)
       ELSE attemptWithdrawal

(***************************************************************************)
(* The program after the script has loaded, and its steps.                 *)
(***************************************************************************)
Init ==
    /\ messageTimerOn = FALSE
    /\ pin = <<>>
    /\ toWithdraw = <<>>
    /\ balance = 0
    /\ loginScreen = TRUE
    /\ userAmount = 0
    /\ initialBalance = 0
    /\ availableNotes = StartingNotes
    /\ userNotes = NoNotes
    /\ terminalText = NoMessage
    /\ statsPanel = [written |-> FALSE, twenty |-> 0, ten |-> 0, five |-> 0, total |-> 0]
    /\ timeouts = <<>>
    /\ request = NoRequest
    /\ lastMessage = NoMessage
    /\ lastAllocation = NoAllocation
    /\ lastCasted = NoAmount

Next ==
    \/ \E digit \in DigitInputs : inputManager(digit)
    \/ digitRemover
    \/ attemptUserInput
    \/ timeoutCallback

Spec == Init /\ [][Next]_vars

TypeOK ==
    /\ messageTimerOn \in BOOLEAN
    /\ loginScreen \in BOOLEAN
    /\ Len(pin) <= PinCap
    /\ Len(toWithdraw) <= WithdrawCap

(***************************************************************************)
(* Vocabulary of the properties.                                           *)
(***************************************************************************)
\* The step is a confirm on the withdrawal screen (every other step resets
\* lastCasted), and the amount it parsed.
WithdrawalConfirm == ~loginScreen /\ lastCasted'.parsed

\* The step is a confirm on the login screen.
LoginConfirm == loginScreen /\ lastMessage' \in {PinCorrect, PinIncorrect}

Requested == parseInt(toWithdraw)

TotalCash == calculateTotalRemainingCash(availableNotes)

AccountUnchanged == UNCHANGED <<balance, userAmount, userNotes>>

\* The requested amount passes the three checks of the confirm key.
PassesChecks ==
    /\ ~Requested.nan
    /\ Requested.value <= balance + overdraftLimit
    /\ Requested.value % 5 = 0
    /\ Requested.value <= TotalCash

\* What the two passes leave of the requested amount.
Shortfall == getDenominationsNeeded(Requested.value, availableNotes).remaining

(***************************************************************************)
(* C1: a confirm that reports "Withdrawn: amount" decreases balance by     *)
(* exactly amount, increases userAmount by exactly amount and decreases    *)
(* the total value of the inventory by exactly amount.                     *)
(* The code reports the requested amount also when the notes handed out    *)
(* add up to less (see C3).                                                *)
(***************************************************************************)
C1_WithdrawnIsExact ==
    [][(WithdrawalConfirm /\ lastMessage'.kind = "Withdrawn: ") =>
          /\ lastMessage' = Withdrawn(Requested.value)
          /\ balance' = balance - Requested.value
          /\ userAmount' = userAmount + Requested.value
          /\ calculateTotalRemainingCash(availableNotes') = TotalCash - Requested.value]_vars

(***************************************************************************)
(* C2: conservation.  In every reachable state the value of the notes that *)
(* have left the inventory equals userAmount, the value handed out so far. *)
(***************************************************************************)
C2_Conservation ==
    calculateTotalRemainingCash(StartingNotes) - TotalCash = userAmount

C2_Witness ==
    /\ userAmount >= 100
    /\ availableNotes.five < StartingNotes.five
    /\ availableNotes.twenty < StartingNotes.twenty

(***************************************************************************)
(* C3: allocation is all-or-nothing.  A confirm whose amount passes the    *)
(* balance, divisibility and total-cash checks but cannot be made up from  *)
(* the notes left reports "Can't dispense that denomination!!" and leaves  *)
(* inventory and account as they were.                                     *)
(* The code has no such test: it keeps the notes it took, books their      *)
(* value and reports "Withdrawn: amount".                                  *)
(***************************************************************************)
C3_AllOrNothing ==
    [][(WithdrawalConfirm /\ PassesChecks /\ Requested.value > 0 /\ Shortfall # 0) =>
          /\ lastMessage' = CantDispense
          /\ availableNotes' = availableNotes
          /\ AccountUnchanged]_vars

(***************************************************************************)
(* C4: bounded overdraft.  An amount of at most balance + overdraftLimit   *)
(* is never refused for lack of balance, also when it exceeds balance, and *)
(* after a login with a balance of at least -overdraftLimit the balance    *)
(* stays at least -overdraftLimit.                                         *)
(***************************************************************************)
C4_BoundedOverdraft ==
    /\ []((~loginScreen /\ initialBalance >= -overdraftLimit) => balance >= -overdraftLimit)
    /\ [][(WithdrawalConfirm /\ ~Requested.nan
             /\ Requested.value <= balance + overdraftLimit) =>
             lastMessage' # NotEnoughInAccount]_vars

\* A withdrawal larger than the balance was made and took it below zero.
C4_Witness ==
    /\ initialBalance >= 0
    /\ balance < 0
    /\ lastAllocation.called
    /\ lastMessage = Withdrawn(lastAllocation.amount)
    /\ lastAllocation.amount = userAmount

(***************************************************************************)
(* C5: a confirm with an amount above balance + overdraftLimit reports     *)
(* "Not enough in Account!", clears the amount and changes neither the     *)
(* inventory nor the account, whatever its divisibility and the cash left. *)
(***************************************************************************)
C5_InsufficientBalance ==
    [][(WithdrawalConfirm /\ ~Requested.nan
          /\ Requested.value > balance + overdraftLimit) =>
          /\ lastMessage' = NotEnoughInAccount
          /\ toWithdraw' = <<>>
          /\ ~lastAllocation'.called
          /\ availableNotes' = availableNotes
          /\ AccountUnchanged]_vars

\* Refused for the balance although divisible by 5 and covered by the cash.
C5_Witness ==
    /\ lastMessage = NotEnoughInAccount
    /\ lastCasted.parsed /\ ~lastCasted.nan
    /\ lastCasted.value > balance + overdraftLimit
    /\ lastCasted.value % 5 = 0
    /\ lastCasted.value <= TotalCash
    /\ userAmount > 0

(***************************************************************************)
(* C6 as stated: a confirm with an amount of at most balance +             *)
(* overdraftLimit that is not divisible by 5 reports "Can't dispense that  *)
(* denomination!!" and leaves the inventory alone, also when the amount    *)
(* exceeds the cash in the inventory.                                      *)
(***************************************************************************)
C6_DivisibilityFirst ==
    [][(WithdrawalConfirm /\ ~Requested.nan
          /\ Requested.value <= balance + overdraftLimit
          /\ Requested.value % 5 # 0) =>
          /\ lastMessage' = CantDispense
          /\ ~lastAllocation'.called
          /\ availableNotes' = availableNotes]_vars

(***************************************************************************)
(* C6 amended: such a confirm never changes the inventory; it reports      *)
(* "Can't dispense that denomination!!" when the amount is covered by the  *)
(* cash in the inventory and "Not enougth notes present!" when it is not:  *)
(* the cash test is decided before divisibility.                           *)
(***************************************************************************)
C6_CashFirst ==
    [][(WithdrawalConfirm /\ ~Requested.nan
          /\ Requested.value <= balance + overdraftLimit
          /\ Requested.value % 5 # 0) =>
          /\ lastMessage' = (IF Requested.value <= TotalCash
                             THEN CantDispense ELSE NotEnoughNotes)
          /\ toWithdraw' = <<>>
          /\ ~lastAllocation'.called
          /\ availableNotes' = availableNotes
          /\ AccountUnchanged]_vars

\* An amount not divisible by 5 and above the cash left was refused for the cash.
C6_Witness ==
    /\ lastMessage = NotEnoughNotes
    /\ lastCasted.parsed /\ ~lastCasted.nan
    /\ lastCasted.value % 5 # 0
    /\ lastCasted.value <= balance + overdraftLimit
    /\ lastCasted.value > TotalCash

(***************************************************************************)
(* C7: the allocation is entered only by a confirm on the withdrawal       *)
(* screen, with the parsed amount, and only when that amount is positive,  *)
(* divisible by 5, at most balance + overdraftLimit and at most the total  *)
(* cash; a confirm whose amount is empty, zero or fails one of these does  *)
(* not enter it and changes neither inventory nor account.                 *)
(***************************************************************************)
C7_AllocationGuarded ==
    /\ [][lastAllocation'.called =>
            /\ WithdrawalConfirm
            /\ lastAllocation'.amount = Requested.value
            /\ Requested.value > 0
            /\ PassesChecks]_vars
    /\ [][(WithdrawalConfirm /\ ~(PassesChecks /\ Requested.value > 0)) =>
            /\ ~lastAllocation'.called
            /\ availableNotes' = availableNotes
            /\ AccountUnchanged]_vars

\* A confirm of the amount 0 passed the three checks without an allocation.
C7_Witness ==
    /\ lastCasted.parsed /\ ~lastCasted.nan
    /\ lastCasted.value = 0
    /\ lastMessage = Withdrawn(0)
    /\ ~lastAllocation.called
    /\ userAmount > 0

(***************************************************************************)
(* C8: a confirm with an amount of at most balance + overdraftLimit,       *)
(* divisible by 5 and above the total cash reports "Not enougth notes      *)
(* present!" without an allocation, clears the amount and leaves inventory *)
(* and account unchanged; this includes 5 from the empty inventory.        *)
(***************************************************************************)
C8_InsufficientCash ==
    [][(WithdrawalConfirm /\ ~Requested.nan
          /\ Requested.value <= balance + overdraftLimit
          /\ Requested.value % 5 = 0
          /\ Requested.value > TotalCash) =>
          /\ lastMessage' = NotEnoughNotes
          /\ ~lastAllocation'.called
          /\ toWithdraw' = <<>>
          /\ availableNotes' = availableNotes
          /\ AccountUnchanged]_vars

\* 5 was asked of the empty inventory.
C8_Witness ==
    /\ isATMEmpty(availableNotes)
    /\ availableNotes = NoNotes
    /\ lastCasted.parsed /\ ~lastCasted.nan
    /\ lastCasted.value = 5
    /\ lastCasted.value <= balance + overdraftLimit
    /\ lastMessage = NotEnoughNotes

(***************************************************************************)
(* C9: the login screen is left only by a confirm whose pin the service    *)
(* accepted, and the withdrawal screen is never left for the login screen. *)
(***************************************************************************)
C9_LoginOnlyOnVerifiedPin ==
    /\ [][(loginScreen /\ ~loginScreen') =>
            /\ lastMessage' = PinCorrect
            /\ request' \in Responses(pin)
            /\ request'.status = StatusOK
            /\ pin = CorrectPin]_vars
    /\ [][~loginScreen => ~loginScreen']_vars

\* Logged in, after a rejected attempt, and working on the withdrawal screen.
C9_Witness ==
    /\ ~loginScreen
    /\ request.status = StatusOK
    /\ pin = CorrectPin
    /\ userAmount > 0

(***************************************************************************)
(* C10: a confirm on the login screen whose pin the service rejects clears *)
(* the pin, stays on the login screen, reports "PIN incorrect!" and leaves *)
(* balance, initialBalance, inventory and the user's totals unchanged;     *)
(* once the message is gone the digits of a new pin are accepted.          *)
(***************************************************************************)
C10_RejectedPin ==
    /\ [][(LoginConfirm /\ request'.status # StatusOK) =>
            /\ pin' = <<>>
            /\ loginScreen'
            /\ lastMessage' = PinIncorrect
            /\ UNCHANGED <<balance, initialBalance, availableNotes, userAmount, userNotes,
                           toWithdraw>>]_vars
    /\ [][(loginScreen /\ request.status \in RejectedStatuses /\ ~messageTimerOn
             /\ Len(pin) < PinCap) =>
            /\ lastMessage' # insertionError
            /\ Len(pin') > Len(pin) => \E digit \in DigitInputs : pin' = pin \o digit]_vars

\* After a rejected pin a new digit has been entered.
C10_Witness ==
    /\ loginScreen
    /\ request.sent /\ request.status \in RejectedStatuses
    /\ Len(pin) = 1
    /\ balance = 0 /\ initialBalance = 0

(***************************************************************************)
(* Vocabulary of the properties about the keys and the timed message.      *)
(***************************************************************************)
\* The step is a press of a digit key / of the delete key.
DigitStep == \E digit \in DigitInputs : inputManager(digit)

DeleteStep == digitRemover

\* The buffer the keys work on, and its cap.
ActiveBuffer == IF loginScreen THEN pin ELSE toWithdraw

ActiveCap == IF loginScreen THEN PinCap ELSE WithdrawCap

\* The persistent status text of the current state.
Status ==
    IF loginScreen THEN pinMessage(pin)
    ELSE withdrawalMessage(balance, userAmount, initialBalance, toWithdraw)

(***************************************************************************)
(* C11: the pin never holds more than 4 characters and the amount never    *)
(* more than 5; a digit pressed when the active buffer is at its cap is    *)
(* answered with "No more can be inserted!!" and leaves both buffers as    *)
(* they were.                                                              *)
(***************************************************************************)
C11_BufferCapacity ==
    /\ [](Len(pin) <= PinCap /\ Len(toWithdraw) <= WithdrawCap)
    /\ [][(DigitStep /\ Len(ActiveBuffer) >= ActiveCap) =>
            /\ lastMessage' = insertionError
            /\ UNCHANGED <<pin, toWithdraw>>]_vars

\* A digit was refused at the full amount buffer, with the full pin still held.
C11_Witness ==
    /\ ~loginScreen
    /\ Len(toWithdraw) = WithdrawCap
    /\ Len(pin) = PinCap
    /\ lastMessage = insertionError
    /\ terminalText = insertionError

(***************************************************************************)
(* C12: the delete key removes exactly the last character of the active    *)
(* buffer when that buffer is not empty and no timed message is shown, and *)
(* never changes the other buffer; on an empty buffer it is answered with  *)
(* "No more can be deleted!!" and the buffer stays empty.                  *)
(***************************************************************************)
C12_Backspace ==
    [][DeleteStep =>
         /\ IF loginScreen THEN toWithdraw' = toWithdraw ELSE pin' = pin
         /\ (ActiveBuffer # <<>> /\ ~messageTimerOn) =>
               /\ ActiveBuffer' = SubSeq(ActiveBuffer, 1, Len(ActiveBuffer) - 1)
               /\ ActiveBuffer = ActiveBuffer' \o <<ActiveBuffer[Len(ActiveBuffer)]>>
               /\ lastMessage' = NoMessage
         /\ ActiveBuffer = <<>> =>
               /\ lastMessage' = deletionError
               /\ ActiveBuffer' = <<>>]_vars

\* Delete was refused on the emptied amount buffer; the pin is as entered.
C12_Witness ==
    /\ ~loginScreen
    /\ toWithdraw = <<>>
    /\ pin = CorrectPin
    /\ lastMessage = deletionError
    /\ terminalText = deletionError
    /\ userAmount > 0

(***************************************************************************)
(* C13: while the timed message is shown (messageTimerOn), a digit or      *)
(* delete key changes neither the pin nor the amount.                      *)
(***************************************************************************)
C13_InputSuppressed ==
    [][(messageTimerOn /\ (DigitStep \/ DeleteStep)) =>
          /\ UNCHANGED <<pin, toWithdraw>>
          /\ lastMessage' \in {insertionError, deletionError}]_vars

\* Delete was refused on a full amount buffer, because of the message only.
C13_Witness ==
    /\ messageTimerOn
    /\ ~loginScreen
    /\ lastMessage = deletionError
    /\ terminalText = insertionError
    /\ Len(toWithdraw) = WithdrawCap

\* The messages that report an error.
ErrorMessages ==
    {insertionError, deletionError, PinIncorrect, NotEnoughInAccount, CantDispense,
     NotEnoughNotes}

(***************************************************************************)
(* C14 as stated: every error is shown on the terminal as a timed message  *)
(* in the step that detects it, also when the key arrives while another    *)
(* timed message is being shown.                                           *)
(***************************************************************************)
C14_ErrorAlwaysShown ==
    [][lastMessage' \in ErrorMessages =>
          /\ terminalText' = lastMessage'
          /\ messageTimerOn']_vars

(***************************************************************************)
(* C14 amended: an error detected while no timed message is shown is put   *)
(* on the terminal in that step and its revert is scheduled; an error      *)
(* detected while a timed message is shown is not displayed: the terminal  *)
(* text, the flag and the pending revert stay as they are.                 *)
(***************************************************************************)
C14_ErrorShownUnlessBusy ==
    [][lastMessage' \in ErrorMessages =>
          IF ~messageTimerOn
          THEN /\ terminalText' = lastMessage'
               /\ messageTimerOn'
               /\ Len(timeouts') = Len(timeouts) + 1
          ELSE UNCHANGED <<terminalText, messageTimerOn, timeouts>>]_vars

\* A confirm of a five-digit amount was refused while the insertion message
\* was on the terminal, and the terminal still shows the insertion message.
C14_Witness ==
    /\ messageTimerOn
    /\ terminalText = insertionError
    /\ lastMessage = NotEnoughInAccount
    /\ lastCasted.parsed /\ ~lastCasted.nan
    /\ toWithdraw = <<>>

(***************************************************************************)
(* C15: when the timed message ends, the text put back on the terminal is  *)
(* the status of the state at that moment (the asterisks of the current    *)
(* pin, or the current balance, overdraft and amount), whatever confirm    *)
(* keys were pressed while the message was shown; so the terminal agrees   *)
(* with the state once the message has ended.                              *)
(* The callback puts back the text computed when the message was asked     *)
(* for, and the confirm key is not held back while the message is shown.   *)
(***************************************************************************)
C15_RevertShowsCurrentStatus ==
    [][(messageTimerOn /\ ~messageTimerOn') => terminalText' = Status']_vars

(***************************************************************************)
(* C16: the count of every denomination in the inventory is never          *)
(* negative and never grows; userAmount and the count of every             *)
(* denomination in userNotes never shrink; once logged in, balance never   *)
(* grows.                                                                  *)
(***************************************************************************)
C16_Monotone ==
    /\ [](availableNotes.five >= 0 /\ availableNotes.ten >= 0 /\ availableNotes.twenty >= 0)
    /\ [][/\ availableNotes'.five <= availableNotes.five
          /\ availableNotes'.ten <= availableNotes.ten
          /\ availableNotes'.twenty <= availableNotes.twenty
          /\ userAmount' >= userAmount
          /\ userNotes'.five >= userNotes.five
          /\ userNotes'.ten >= userNotes.ten
          /\ userNotes'.twenty >= userNotes.twenty
          /\ ~loginScreen => balance' <= balance]_vars

\* Notes of every denomination were handed out and the fives ran out.
C16_Witness ==
    /\ availableNotes.five = 0
    /\ availableNotes.ten < StartingNotes.ten
    /\ availableNotes.twenty < StartingNotes.twenty
    /\ userNotes.five = StartingNotes.five
    /\ balance < initialBalance
    /\ lastAllocation.called

\* The step is the withdrawal of 100 from the starting inventory (26 notes).
ScenarioA ==
    /\ WithdrawalConfirm
    /\ availableNotes = StartingNotes
    /\ Requested = [nan |-> FALSE, value |-> 100]
    /\ lastAllocation'.called

\* The notes handed out by the step, and the inventory reduced by them.
HandedOut == [d \in {"five", "ten", "twenty"} |-> userNotes'[d] - userNotes[d]]

InventoryReducedByHandedOut ==
    \A d \in {"five", "ten", "twenty"} : availableNotes'[d] = availableNotes[d] - HandedOut[d]

(***************************************************************************)
(* C17 as stated: 100 from {twenty:7, ten:15, five:4} hands out            *)
(* {twenty:5, ten:0, five:0}, or {twenty:3, ten:3, five:2} by the cap      *)
(* formula with limit 3, and the inventory is reduced by exactly the notes *)
(* handed out.                                                             *)
(***************************************************************************)
C17_ScenarioAAsStated ==
    [][ScenarioA =>
          /\ HandedOut \in {[twenty |-> 5, ten |-> 0, five |-> 0],
                            [twenty |-> 3, ten |-> 3, five |-> 2]}
          /\ InventoryReducedByHandedOut]_vars

(***************************************************************************)
(* C17 amended: 100 from {twenty:7, ten:15, five:4} hands out              *)
(* {twenty:4, ten:2, five:0} (the limit is 100 / 26 = 3.85 and is not      *)
(* rounded, so a fourth twenty is taken), and the inventory afterwards is  *)
(* {twenty:3, ten:13, five:4}.                                             *)
(***************************************************************************)
C17_ScenarioA ==
    [][ScenarioA =>
          /\ HandedOut = [twenty |-> 4, ten |-> 2, five |-> 0]
          /\ InventoryReducedByHandedOut
          /\ availableNotes' = [twenty |-> 3, ten |-> 13, five |-> 4]
          /\ lastMessage' = Withdrawn(100)
          /\ balance' = balance - 100]_vars

C17_Witness ==
    /\ lastMessage = Withdrawn(100)
    /\ lastAllocation = [called |-> TRUE, amount |-> 100]
    /\ userAmount = 100
    /\ userNotes = [twenty |-> 4, ten |-> 2, five |-> 0]
    /\ availableNotes = [twenty |-> 3, ten |-> 13, five |-> 4]

(***************************************************************************)
(* C18: after a confirm on the login screen whose pin was verified,        *)
(* balance and initialBalance both equal the balance the service returned, *)
(* the withdrawal screen is on with an empty amount, and the pin has been  *)
(* cleared: no state of the withdrawal screen holds the entered pin.       *)
(* The code clears the pin only when it was rejected.                      *)
(***************************************************************************)
C18_VerifiedLogin ==
    /\ [][(LoginConfirm /\ request'.status = StatusOK) =>
            /\ balance' = request'.currentBalance
            /\ initialBalance' = request'.currentBalance
            /\ ~loginScreen'
            /\ toWithdraw' = <<>>
            /\ pin' = <<>>]_vars
    /\ [](~loginScreen => pin = <<>>)

(***************************************************************************)
(* C19: at most one revert callback is pending, one is pending exactly     *)
(* when messageTimerOn is set, and a message asked for while the flag is   *)
(* set schedules no second callback.                                       *)
(***************************************************************************)
C19_SingleTimer ==
    /\ [](Len(timeouts) <= 1 /\ (messageTimerOn <=> timeouts # <<>>))
    /\ [][(messageTimerOn /\ lastMessage' # NoMessage) => timeouts' = timeouts]_vars

\* A message was asked for while another one was shown; one callback is pending.
C19_Witness ==
    /\ messageTimerOn
    /\ Len(timeouts) = 1
    /\ lastMessage # NoMessage
    /\ lastMessage # terminalText
    /\ lastMessage.kind = "Withdrawn: "
    /\ lastAllocation.called

(***************************************************************************)
(* The event loop runs a setTimeout callback once its delay has passed:    *)
(* the callback is taken if it stays pending.                              *)
(***************************************************************************)
FairSpec == Spec /\ WF_vars(timeoutCallback)

(***************************************************************************)
(* C20: no permanent lockout.  Whenever messageTimerOn is set it is        *)
(* cleared later, whatever keys are pressed meanwhile; with the flag       *)
(* cleared, a digit below the cap and a delete on a non-empty buffer are   *)
(* accepted.                                                               *)
(***************************************************************************)
C20_NoLockout ==
    /\ messageTimerOn ~> ~messageTimerOn
    /\ [][(~messageTimerOn /\ DigitStep /\ Len(ActiveBuffer) < ActiveCap) =>
            Len(ActiveBuffer') = Len(ActiveBuffer) + 1]_vars
    /\ [][(~messageTimerOn /\ DeleteStep /\ ActiveBuffer # <<>>) =>
            Len(ActiveBuffer') = Len(ActiveBuffer) - 1]_vars

\* The message of a withdrawal has ended and a digit was accepted after it.
C20_Witness ==
    /\ ~loginScreen
    /\ ~messageTimerOn
    /\ timeouts = <<>>
    /\ userAmount > 0
    /\ Len(toWithdraw) = 1
    /\ terminalText = Status

\* The amount can be made up from the notes: some number of notes of each
\* denomination, none above its stock, adds up to it.
Expressible(amount, notes) ==
    \E w \in 0..notes.twenty, t \in 0..notes.ten, f \in 0..notes.five :
        (w * 20) + (t * 10) + (f * 5) = amount

\* The value of the notes handed out by the step.
HandedOutValue == (HandedOut.five * 5) + (HandedOut.ten * 10) + (HandedOut.twenty * 20)

(***************************************************************************)
(* C21: the two passes are complete.  A confirm whose amount is positive,  *)
(* divisible by 5, covered by the total cash and can be made up from the   *)
(* notes in stock hands out notes worth exactly the amount: the limit of   *)
(* the first pass never turns such a request into a shortfall.             *)
(* The first pass spends the small notes the second pass would need: both  *)
(* passes are greedy and neither goes back on a note taken.                *)
(***************************************************************************)
C21_Complete ==
    [][(WithdrawalConfirm /\ PassesChecks /\ Requested.value > 0
          /\ Expressible(Requested.value, availableNotes)) =>
          /\ lastAllocation'.called
          /\ Shortfall = 0
          /\ HandedOutValue = Requested.value
          /\ InventoryReducedByHandedOut]_vars

\* The bundle the allocation returns for the amount of the step.
ReturnedBundle == getDenominationsNeeded(Requested.value, availableNotes).batchOfNotes

(***************************************************************************)
(* C22: the terminal never hands out too much.  For every call of the      *)
(* allocation, the notes it returns (the notes booked to the user) are     *)
(* worth at most the amount asked for, and of each denomination there are  *)
(* at most as many as the inventory held before the call.                  *)
(***************************************************************************)
C22_NeverOverDispenses ==
    [][lastAllocation'.called =>
          /\ lastAllocation'.amount = Requested.value
          /\ \A d \in {"five", "ten", "twenty"} :
                /\ HandedOut[d] = ReturnedBundle[d]
                /\ HandedOut[d] >= 0
                /\ HandedOut[d] <= availableNotes[d]
          /\ HandedOutValue <= Requested.value
          /\ HandedOutValue >= 0]_vars

\* A call that took every note left of two denominations and still handed
\* out less than was asked for.
C22_Witness ==
    /\ lastAllocation = [called |-> TRUE, amount |-> 150]
    /\ userAmount = 250
    /\ userNotes = [five |-> 4, ten |-> 9, twenty |-> 7]
    /\ availableNotes = [five |-> 0, ten |-> 6, twenty |-> 0]

\* The texts that show an overdraft, and the texts on or due on the terminal.
IsOverdraftText(t) == t.kind = "Overdraft: | Balance: | Amount to withdraw: "

TerminalTexts == {terminalText} \cup {timeouts[i] : i \in 1..Len(timeouts)}

(***************************************************************************)
(* C23: in every reachable state balance = initialBalance - userAmount.    *)
(* So whenever balance < 0 the overdraft of the status text,               *)
(* userAmount - initialBalance, is exactly -balance, and after a login     *)
(* with a balance of at least 0 it lies in 1..overdraftLimit: withdrawals  *)
(* below zero are not counted twice.  Every overdraft text written to the  *)
(* terminal carries the overdraft that belongs to the balance it shows.    *)
(***************************************************************************)
C23_OverdraftUsed ==
    /\ balance = initialBalance - userAmount
    /\ balance < 0 =>
          /\ IsOverdraftText(Status) \/ loginScreen
          /\ withdrawalMessage(balance, userAmount, initialBalance, toWithdraw).a = -balance
          /\ initialBalance >= 0 => (userAmount - initialBalance) \in 1..overdraftLimit
    /\ \A t \in TerminalTexts :
          IsOverdraftText(t) =>
             /\ t.a = overdraftLimit - t.b
             /\ t.a >= 1
             /\ initialBalance >= 0 => t.a <= overdraftLimit

\* A second withdrawal was made below zero; the text due on the terminal
\* shows the overdraft of both withdrawals together.
C23_Witness ==
    /\ initialBalance = 50
    /\ balance = -15
    /\ userAmount = 65
    /\ lastAllocation = [called |-> TRUE, amount |-> 10]
    /\ Len(timeouts) = 1
    /\ IsOverdraftText(timeouts[1])
    /\ timeouts[1].a = 15

(***************************************************************************)
(* C24: notes are conserved per denomination.  In every reachable state,   *)
(* for each denomination the notes handed out so far (userNotes) and the   *)
(* notes in the inventory add up to the starting stock (five 4, ten 15,    *)
(* twenty 7), and the notes handed out so far are worth userAmount.        *)
(***************************************************************************)
C24_NoteConservation ==
    /\ \A d \in {"five", "ten", "twenty"} :
          userNotes[d] + availableNotes[d] = StartingNotes[d]
    /\ (5 * userNotes.five) + (10 * userNotes.ten) + (20 * userNotes.twenty) = userAmount

\* Notes of all three denominations were handed out over several
\* withdrawals, and some of each are left.
C24_Witness ==
    /\ userNotes.five > 0 /\ userNotes.ten > 0 /\ userNotes.twenty > 0
    /\ availableNotes.five > 0 /\ availableNotes.ten > 0 /\ availableNotes.twenty > 0
    /\ lastAllocation.called
    /\ userAmount > lastAllocation.amount
    /\ statsPanel = updateStatsPanel(userNotes, userAmount)

====
